---- MODULE Spec2Model ----
(***************************************************************************)
(* State-machine model of DatabaseService (src/database_service.py): the   *)
(* three relations flagged_emails, analysis_results and phrase_statistics, *)
(* the transactions store_flagged_email, delete_flagged_email,             *)
(* delete_analysis_result, delete_phrase_statistic, cleanup_old_data and   *)
(* update_flagged_email, the reader get_occurrence_report, one step per    *)
(* SQL statement, and the connection each transaction runs on.             *)
(*                                                                         *)
(* Every caller owns its DatabaseService, hence its own connection and its *)
(* own transaction (src/test_database_fixes.py:90, src/app.py:190).  The   *)
(* database runs PostgreSQL's default isolation, READ COMMITTED: a         *)
(* statement reads the rows committed when it runs plus the writes of its  *)
(* own transaction, and a row written by a transaction stays locked until  *)
(* that transaction commits or rolls back.  A statement that needs a row   *)
(* locked by another transaction is not enabled until the lock is gone.    *)
(***************************************************************************)
EXTENDS Integers, Sequences, FiniteSets, TLC

\* ------------------------------------------------------------------ bounds
MaxOps == 3          \* operations a run of the serial specification begins
MaxConcOps == 3      \* operations a run of a concurrent specification begins
MaxTime == 1         \* the clock runs 0..MaxTime

Clients == {1, 2}
Contents == {1, 2}                 \* raw contents (parsed_email['raw_lines'])
Headers == {1, 2}                  \* header sets (subject, from, to, date)
Phrases == {"a", "b"}
Batches == {<< >>, <<"a">>, <<"a", "a">>, <<"a", "b">>}
DaysOld == {0, 1}                  \* cleanup thresholds, in clock ticks

\* ----------------------------------------------------------------- helpers
EmptyFn == [k \in {} |-> 0]
Restrict(f, S) == [k \in S |-> f[k]]
Zero == [p \in Phrases |-> 0]
Keys(counts) == {p \in Phrases : counts[p] > 0}

\* hashlib.sha256(content).hexdigest(): a digest, equal exactly for equal
\* contents (collision resistance); a value of another type than the content.
_generate_email_hash(content) == <<"sha256", content>>

\* The rows a transaction sees: the committed table under its own writes.
Overlay(T, o) ==
  [k \in (DOMAIN T \ o.del) \cup DOMAIN o.put |->
      IF k \in DOMAIN o.put THEN o.put[k] ELSE T[k]]
OvPut(o, k, row) == [put |-> (k :> row) @@ o.put, del |-> o.del \ {k}]
OvDel(o, K, T) ==
  [put |-> Restrict(o.put, DOMAIN o.put \ K), del |-> o.del \cup (K \cap DOMAIN T)]
NoWrites == [put |-> EmptyFn, del |-> {}]
NoLocks == [e |-> {}, f |-> {}, s |-> {}]
InitOv == [e |-> NoWrites, f |-> NoWrites, s |-> NoWrites, locks |-> NoLocks]

\* SELECT suspicious_phrase, COUNT(*) ... WHERE flagged_email_id = id GROUP BY
CountsByPhrase(F, id) ==
  [p \in Phrases |->
      Cardinality({k \in DOMAIN F : F[k].email = id /\ F[k].phrase = p})]

\* Mutant: no finding is found for the email (no explicit delete, no cascade).
FindingsOfNone(F, id) == {}

\* WHERE flagged_email_id = %s: the findings of one email.
FindingsOf(F, id) == {k \in DOMAIN F : F[k].email = id}

NoReport == [summary |-> 0, top_phrases |-> 0, recent_activity |-> 0]
InitLoc ==
  [id |-> 0, isNew |-> FALSE, isLast |-> FALSE, old |-> Zero, new |-> Zero,
   ea |-> Zero, i |-> 1, n |-> 0, todo |-> {}, cur |-> "", result |-> 0,
   report |-> NoReport, snaps |-> {}]
NoCall == [op |-> "none"]
NoRet == [op |-> "none", kind |-> "none", val |-> 0]
NoMark == [on |-> FALSE, e |-> EmptyFn, f |-> EmptyFn, s |-> EmptyFn, calls |-> << >>]

VARIABLES
  emails,       \* committed flagged_emails: id -> row
  findings,     \* committed analysis_results: id -> row
  stats,        \* committed phrase_statistics: phrase -> row
  nextEmailId,  \* flagged_emails_id_seq
  nextFindingId,\* analysis_results_id_seq
  now,          \* the clock
  ops,          \* operations begun so far
  pc,           \* per caller: the statement it is at
  call,         \* per caller: the operation and its arguments
  loc,          \* per caller: the local variables of the operation
  ov,           \* per caller: the uncommitted writes and row locks of its transaction
  ret,          \* per caller: how its last operation ended
  stored,       \* per content: id the last successful store returned (0: none, or deleted since)
  mark,         \* once set: the relations as they were then, and the calls committed since
  conn          \* per caller: its connection, "open", "lost" (broken, the client has
                \* not noticed: connection.closed = 0) or "closed" (connection.closed # 0)

vars == <<emails, findings, stats, nextEmailId, nextFindingId, now, ops,
          pc, call, loc, ov, ret, stored, mark, conn>>
db == <<emails, findings, stats>>

VEmails(c) == Overlay(emails, ov[c].e)
VFindings(c) == Overlay(findings, ov[c].f)
VStats(c) == Overlay(stats, ov[c].s)

\* Row locks held by the other transactions.
OthersLockE(c) == UNION {ov[d].locks.e : d \in Clients \ {c}}
OthersLockF(c) == UNION {ov[d].locks.f : d \in Clients \ {c}}
OthersLockS(c) == UNION {ov[d].locks.s : d \in Clients \ {c}}

Init ==
  /\ emails = EmptyFn
  /\ findings = EmptyFn
  /\ stats = EmptyFn
  /\ nextEmailId = 1
  /\ nextFindingId = 1
  /\ now = 0
  /\ ops = 0
  /\ pc = [c \in Clients |-> "idle"]
  /\ call = [c \in Clients |-> NoCall]
  /\ loc = [c \in Clients |-> InitLoc]
  /\ ov = [c \in Clients |-> InitOv]
  /\ ret = [c \in Clients |-> NoRet]
  /\ stored = [k \in Contents |-> 0]
  /\ mark = NoMark
  /\ conn = [c \in Clients |-> "open"]

\* if not self.connection or self.connection.closed: self._connect()
_get_cursor(state) == IF state = "closed" THEN "open" ELSE state

\* Every operation starts with cursor = self._get_cursor().  The transaction's
\* NOW() / CURRENT_TIMESTAMP is the time of its first statement.
Begin(c, theCall, first) ==
  /\ pc[c] = "idle"
  /\ conn' = [conn EXCEPT ![c] = _get_cursor(@)]
  /\ pc' = [pc EXCEPT ![c] = first]
  /\ call' = [call EXCEPT ![c] = theCall @@ [time |-> now]]
  /\ loc' = [loc EXCEPT ![c] = InitLoc]
  /\ ops' = ops + 1
  /\ UNCHANGED <<emails, findings, stats, nextEmailId, nextFindingId, now, ov, ret,
                 stored, mark>>

Goto(c, label) == pc' = [pc EXCEPT ![c] = label]
Frame == UNCHANGED <<emails, findings, stats, now, ops, call, ret, stored, mark, conn>>


\* ---------------------------------------------------- store_flagged_email
StoreCall(c, Cs, Hs, Bs) ==
  \E content \in Cs, hdr \in Hs, batch \in Bs :
    Begin(c, [op |-> "store", content |-> content, hdr |-> hdr, batch |-> batch], "upsert")

\* Mutant: check-then-insert, the upsert does not wait for the row's holder.
UpsertNeverWaits(c, h) == FALSE

\* INSERT ... ON CONFLICT (email_hash) waits for any transaction that holds the
\* row of that hash (an uncommitted insert, update or delete of it).
UpsertWaits(c, h) == h \in OthersLockE(c)

\* Mutant: a plain INSERT, no row ever conflicts.
ConflictRowsNone(V, h) == {}

\* ON CONFLICT (email_hash): the visible rows with that hash.
ConflictRows(V, h) == {k \in DOMAIN V : V[k].hash = h}

\* Mutant: on conflict flagged_at keeps the time of the first ingestion.
ConflictUpdateKeepsAge(row, excluded) == [row EXCEPT !.total = excluded.total]

\* Mutant: on conflict the whole proposed row replaces the stored one.
ConflictUpdateReplaces(row, excluded) == excluded

\* DO UPDATE SET total_suspicious_findings = EXCLUDED.total_suspicious_findings,
\*   flagged_at = CURRENT_TIMESTAMP: the stored row after the conflict.
ConflictUpdate(row, excluded) ==
  [row EXCEPT !.total = excluded.total, !.flagged_at = excluded.flagged_at]

\* INSERT INTO flagged_emails ... ON CONFLICT (email_hash) DO UPDATE SET
\* total_suspicious_findings, flagged_at RETURNING id, (xmax = 0) AS is_new_email
Upsert(c) ==
  /\ pc[c] = "upsert"
  /\ LET h == _generate_email_hash(call[c].content)
         V == VEmails(c)
         hit == ConflictRows(V, h)
         n == Len(call[c].batch)
         isNew == hit = {}
         id == IF isNew THEN nextEmailId ELSE CHOOSE k \in hit : TRUE
         values == [hash |-> h, hdr |-> call[c].hdr, content |-> call[c].content,
                    total |-> n, risk_level |-> "medium",
                    flagged_at |-> call[c].time]
         row == IF isNew THEN values ELSE ConflictUpdate(V[id], values)
     IN /\ ~UpsertWaits(c, h)
        /\ ov' = [ov EXCEPT ![c].e = OvPut(@, id, row), ![c].locks.e = @ \cup {h}]
        /\ loc' = [loc EXCEPT ![c].id = id, ![c].isNew = isNew]
        /\ nextEmailId' = nextEmailId + 1
  /\ Goto(c, "lock")
  /\ UNCHANGED nextFindingId
  /\ Frame

\* SELECT id FROM flagged_emails WHERE id = %s FOR UPDATE
LockRow(c) ==
  /\ pc[c] = "lock"
  /\ LET V == VEmails(c)
         id == loc[c].id
     IN /\ id \in DOMAIN V => V[id].hash \notin OthersLockE(c)
        /\ ov' = [ov EXCEPT ![c].locks.e =
                     IF id \in DOMAIN V THEN @ \cup {V[id].hash} ELSE @]
  /\ Goto(c, IF loc[c].isNew THEN "insert" ELSE "old_counts")
  /\ UNCHANGED <<loc, nextEmailId, nextFindingId>>
  /\ Frame

\* old_phrase_counts: SELECT suspicious_phrase, COUNT(*) ... GROUP BY
OldCounts(c) ==
  /\ pc[c] = "old_counts"
  /\ loc' = [loc EXCEPT ![c].old = CountsByPhrase(VFindings(c), loc[c].id)]
  /\ Goto(c, "clear")
  /\ UNCHANGED <<ov, nextEmailId, nextFindingId>>
  /\ Frame

\* DELETE FROM analysis_results WHERE flagged_email_id = %s
ClearFindings(c) ==
  /\ pc[c] = "clear"
  /\ LET K == FindingsOf(VFindings(c), loc[c].id)
     IN /\ K \cap OthersLockF(c) = {}
        /\ ov' = [ov EXCEPT ![c].f = OvDel(@, K, findings), ![c].locks.f = @ \cup K]
  /\ Goto(c, "insert")
  /\ UNCHANGED <<loc, nextEmailId, nextFindingId>>
  /\ Frame

\* for finding in suspicious_findings: INSERT INTO analysis_results ...;
\* new_phrase_counts[phrase] += 1
InsertFinding(c) ==
  /\ pc[c] = "insert"
  /\ loc[c].i <= Len(call[c].batch)
  /\ LET p == call[c].batch[loc[c].i]
         row == [email |-> loc[c].id, phrase |-> p]
     IN /\ ov' = [ov EXCEPT ![c].f = OvPut(@, nextFindingId, row)]
        /\ loc' = [loc EXCEPT ![c].new[p] = @ + 1, ![c].i = @ + 1]
  /\ nextFindingId' = nextFindingId + 1
  /\ UNCHANGED <<pc, nextEmailId>>
  /\ Frame

\* all_phrases = set(new_phrase_counts.keys()) | set(old_phrase_counts.keys())
CollectPhrases(c) ==
  /\ pc[c] = "insert"
  /\ loc[c].i > Len(call[c].batch)
  /\ LET all == Keys(loc[c].new) \cup Keys(loc[c].old)
     IN /\ loc' = [loc EXCEPT ![c].todo = all, ![c].result = loc[c].id]
        /\ Goto(c, IF all = {} THEN "commit" ELSE "stat_upsert")
  /\ UNCHANGED <<ov, nextEmailId, nextFindingId>>
  /\ Frame

\* Mutant: the delta forgets what the email held before.
CountDeltaIgnoresOld(old, new) == new

\* count_delta = new_count - old_count
CountDelta(old, new) == new - old

\* Mutant: a re-analysed email is counted like a new one.
EmailsAffectedDeltaAsNew(isNew, old, new) == IF new > 0 THEN 1 ELSE 0

\* Mutant: an email that loses a phrase still counts for it.
EmailsAffectedDeltaNeverDrops(isNew, old, new) ==
  IF old = 0 /\ new > 0 THEN 1 ELSE 0

\* emails_affected_delta of _update_phrase_statistics_with_delta
EmailsAffectedDelta(isNew, old, new) ==
  IF isNew
    THEN (IF new > 0 THEN 1 ELSE 0)
    ELSE IF old = 0 /\ new > 0 THEN 1
    ELSE IF old > 0 /\ new = 0 THEN -1
    ELSE 0

\* Mutant: every ledger upsert moves last_seen.
TouchesLastSeenAlways(count_delta, emails_affected_delta) == TRUE

\* if count_delta > 0 or emails_affected_delta > 0: the upsert whose DO UPDATE
\* sets last_seen = CURRENT_TIMESTAMP; else: the one that does not.
TouchesLastSeen(count_delta, emails_affected_delta) ==
  count_delta > 0 \/ emails_affected_delta > 0

\* Mutant: on conflict the counters are overwritten with this email's.
UpsertStatRowOverwrites(S, p, old, new, isNew, t) ==
  [total |-> new, ea |-> EmailsAffectedDelta(isNew, old, new), last_seen |-> t]

\* The row INSERT INTO phrase_statistics ... ON CONFLICT (suspicious_phrase)
\* DO UPDATE leaves for phrase p: seeded with (new_count, emails_affected_delta)
\* when there is none, the deltas added when there is one; last_seen moves
\* only in the branch taken for a positive delta.
UpsertStatRow(S, p, old, new, isNew, t) ==
  LET cd == CountDelta(old, new)
      ed == EmailsAffectedDelta(isNew, old, new)
  IN IF p \in DOMAIN S
       THEN [total |-> S[p].total + cd, ea |-> S[p].ea + ed,
             last_seen |-> IF TouchesLastSeen(cd, ed) THEN t ELSE S[p].last_seen]
       ELSE [total |-> new, ea |-> ed, last_seen |-> t]

\* Mutant: a row whose counters reached zero is kept.
RetiresNever(S, p) == FALSE

\* DELETE FROM phrase_statistics WHERE suspicious_phrase = %s
\*   AND total_occurrences <= 0 AND emails_affected <= 0
Retires(S, p) == p \in DOMAIN S /\ S[p].total <= 0 /\ S[p].ea <= 0

\* Mutant: read-modify-write of the ledger row without waiting for its holder.
StatUpsertNeverWaits(c, p) == FALSE

\* INSERT INTO phrase_statistics ... ON CONFLICT (suspicious_phrase) waits for
\* any transaction that holds the row of that phrase.
StatUpsertWaits(c, p) == p \in OthersLockS(c)

\* The statement a loop over phrases goes to next, `after` once none is left.
NextPhrase(todo, again, after) == IF todo = {} THEN after ELSE again

\* for phrase in all_phrases: _update_phrase_statistics_with_delta(...), the upsert.
\* The iteration order of a Python set is not specified: any phrase left is next.
StatUpsert(c) ==
  /\ pc[c] = "stat_upsert"
  /\ \E p \in loc[c].todo :
       LET old == loc[c].old[p]
           new == loc[c].new[p]
           row == UpsertStatRow(VStats(c), p, old, new, loc[c].isNew, call[c].time)
           rest == loc[c].todo \ {p}
           cleans == CountDelta(old, new) < 0
                       \/ EmailsAffectedDelta(loc[c].isNew, old, new) < 0
       IN /\ ~StatUpsertWaits(c, p)
          /\ ov' = [ov EXCEPT ![c].s = OvPut(@, p, row), ![c].locks.s = @ \cup {p}]
          /\ loc' = [loc EXCEPT ![c].todo = rest, ![c].cur = p]
          /\ Goto(c, IF cleans THEN "stat_retire"
                     ELSE NextPhrase(rest, "stat_upsert", "commit"))
  /\ UNCHANGED <<nextEmailId, nextFindingId>>
  /\ Frame

\* if count_delta < 0 or emails_affected_delta < 0: DELETE ... <= 0 AND ... <= 0
StatRetire(c) ==
  /\ pc[c] = "stat_retire"
  /\ LET p == loc[c].cur
     IN ov' = [ov EXCEPT ![c].s =
                 IF Retires(VStats(c), p) THEN OvDel(@, {p}, stats) ELSE @]
  /\ Goto(c, NextPhrase(loc[c].todo, "stat_upsert", "commit"))
  /\ UNCHANGED <<loc, nextEmailId, nextFindingId>>
  /\ Frame

\* ------------------------------------------------ _execute_in_transaction
\* The ids of the emails a store has returned and that are still stored.
StoredAfter(c, E) ==
  LET s1 == IF call[c].op = "store"
              THEN [stored EXCEPT ![call[c].content] = loc[c].result]
              ELSE stored
  IN [k \in Contents |-> IF s1[k] \in DOMAIN E THEN s1[k] ELSE 0]

\* Mutant: the commit is also skipped on a connection that is broken.
CommitSkipsWhenLost(state) == state # "open"

\* _commit_transaction: if self.connection and not self.connection.closed:
\* self.connection.commit(), and nothing otherwise.
CommitSkips(state) == state = "closed"

\* result = operation_func(...); self._commit_transaction(); return result.
\* The commit of a broken connection raises (Broken below).
Commit(c) ==
  /\ pc[c] = "commit"
  /\ ~CommitSkips(conn[c]) => conn[c] = "open"
  /\ emails' = IF CommitSkips(conn[c]) THEN emails ELSE Overlay(emails, ov[c].e)
  /\ findings' = IF CommitSkips(conn[c]) THEN findings ELSE Overlay(findings, ov[c].f)
  /\ stats' = IF CommitSkips(conn[c]) THEN stats ELSE Overlay(stats, ov[c].s)
  /\ ret' = [ret EXCEPT ![c] = [op |-> call[c].op, kind |-> "ok", val |-> loc[c].result]]
  /\ stored' = StoredAfter(c, emails')
  /\ mark' = IF mark.on
               THEN [mark EXCEPT !.calls = Append(@, [by |-> c, call |-> call[c]])]
               ELSE mark
  /\ pc' = [pc EXCEPT ![c] = "idle"]
  /\ call' = [call EXCEPT ![c] = NoCall]
  /\ loc' = [loc EXCEPT ![c] = InitLoc]
  /\ ov' = [ov EXCEPT ![c] = InitOv]
  /\ UNCHANGED <<nextEmailId, nextFindingId, now, ops, conn>>

\* Mutant: the writes of the failed operation stay.
RollbackKeepsWrites(T, o) == Overlay(T, o)

\* What self.connection.rollback() leaves of the three relations.
Rollback(T, o) == T

\* except Exception: self._rollback_transaction(); raise e.  A statement, or the
\* commit, may raise at any point of the operation.
Fail(c) ==
  /\ pc[c] # "idle"
  /\ emails' = Rollback(emails, ov[c].e)
  /\ findings' = Rollback(findings, ov[c].f)
  /\ stats' = Rollback(stats, ov[c].s)
  /\ ret' = [ret EXCEPT ![c] = [op |-> call[c].op, kind |-> "raised", val |-> 0]]
  /\ pc' = [pc EXCEPT ![c] = "idle"]
  /\ call' = [call EXCEPT ![c] = NoCall]
  /\ loc' = [loc EXCEPT ![c] = InitLoc]
  /\ ov' = [ov EXCEPT ![c] = InitOv]
  /\ UNCHANGED <<nextEmailId, nextFindingId, now, ops, stored, mark, conn>>

\* The connection of a caller breaks while its operation runs: the server ends
\* the session, the transaction's writes are gone and its row locks released.
\* The client has not touched the connection since: connection.closed is 0.
Lose(c) ==
  /\ pc[c] # "idle"
  /\ conn[c] = "open"
  /\ conn' = [conn EXCEPT ![c] = "lost"]
  /\ ov' = [ov EXCEPT ![c] = InitOv]
  /\ UNCHANGED <<emails, findings, stats, nextEmailId, nextFindingId, now, ops,
                 pc, call, loc, ret, stored, mark>>

\* The next statement of the operation, or its commit, on the broken
\* connection raises and the driver marks the connection closed; except
\* Exception: self._rollback_transaction() finds it closed and issues
\* nothing; raise e.
Broken(c) ==
  /\ pc[c] # "idle"
  /\ conn[c] = "lost"
  /\ conn' = [conn EXCEPT ![c] = "closed"]
  /\ ret' = [ret EXCEPT ![c] = [op |-> call[c].op, kind |-> "raised", val |-> 0]]
  /\ pc' = [pc EXCEPT ![c] = "idle"]
  /\ call' = [call EXCEPT ![c] = NoCall]
  /\ loc' = [loc EXCEPT ![c] = InitLoc]
  /\ ov' = [ov EXCEPT ![c] = InitOv]
  /\ UNCHANGED <<emails, findings, stats, nextEmailId, nextFindingId, now, ops,
                 stored, mark>>

\* An operation reads the clock once, when it starts (CURRENT_TIMESTAMP is the
\* start of the transaction, cutoff_date is computed before the first
\* statement), so time passes between the operations of a client.
Tick(c) ==
  /\ pc[c] = "idle"
  /\ now < MaxTime
  /\ now' = now + 1
  /\ UNCHANGED <<emails, findings, stats, nextEmailId, nextFindingId, ops,
                 pc, call, loc, ov, ret, stored, mark, conn>>

StoreSteps(c) ==
  \/ Upsert(c)
  \/ LockRow(c)
  \/ OldCounts(c)
  \/ ClearFindings(c)
  \/ InsertFinding(c)
  \/ CollectPhrases(c)
  \/ StatUpsert(c)
  \/ StatRetire(c)


\* ------------------------------------------- _decrement_phrase_statistics
\* Mutant: the decrement leaves emails_affected alone.
DecrementStatRowKeepsEmails(row, occurrence_decrement, emails_affected_decrement) ==
  [row EXCEPT !.total = @ - occurrence_decrement]

\* UPDATE phrase_statistics SET total_occurrences = total_occurrences - %s,
\*   emails_affected = emails_affected - %s WHERE suspicious_phrase = %s
DecrementStatRow(row, occurrence_decrement, emails_affected_decrement) ==
  [row EXCEPT !.total = @ - occurrence_decrement,
              !.ea = @ - emails_affected_decrement]

\* The operation's statement after its loop over _decrement_phrase_statistics.
AfterDecrements(op) ==
  CASE op = "delete_email" -> "del_email"
    [] op = "delete_finding" -> "commit"
    [] op = "cleanup" -> "purge_emails"

\* The UPDATE of _decrement_phrase_statistics for one of the phrases left; it
\* finds no row, and waits for nothing, when the phrase has no visible row.
DecStat(c) ==
  /\ pc[c] = "dec"
  /\ \E p \in loc[c].todo :
       LET S == VStats(c)
       IN /\ p \in DOMAIN S => p \notin OthersLockS(c)
          /\ ov' = [ov EXCEPT
                      ![c].s = IF p \in DOMAIN S
                                 THEN OvPut(@, p, DecrementStatRow(S[p], loc[c].old[p], loc[c].ea[p]))
                                 ELSE @,
                      ![c].locks.s = IF p \in DOMAIN S THEN @ \cup {p} ELSE @]
          /\ loc' = [loc EXCEPT ![c].todo = @ \ {p}, ![c].cur = p]
  /\ Goto(c, "dec_retire")
  /\ UNCHANGED <<nextEmailId, nextFindingId>>
  /\ Frame

\* The DELETE of _decrement_phrase_statistics (both counters <= 0).
DecRetire(c) ==
  /\ pc[c] = "dec_retire"
  /\ LET p == loc[c].cur
         hit == Retires(VStats(c), p)
     IN /\ hit => p \notin OthersLockS(c)
        /\ ov' = [ov EXCEPT ![c].s = IF hit THEN OvDel(@, {p}, stats) ELSE @,
                            ![c].locks.s = IF hit THEN @ \cup {p} ELSE @]
  /\ Goto(c, NextPhrase(loc[c].todo, "dec", AfterDecrements(call[c].op)))
  /\ UNCHANGED <<loc, nextEmailId, nextFindingId>>
  /\ Frame

\* --------------------------------------------------- delete_flagged_email
DeleteEmailCall(c, Ids) ==
  \E id \in Ids :
    Begin(c, [op |-> "delete_email", id |-> id], "del_counts")

\* phrase_counts_to_remove: SELECT suspicious_phrase, COUNT(*) ... GROUP BY
DelCounts(c) ==
  /\ pc[c] = "del_counts"
  /\ loc' = [loc EXCEPT ![c].old = CountsByPhrase(VFindings(c), call[c].id),
                        ![c].id = call[c].id]
  /\ Goto(c, "del_findings")
  /\ UNCHANGED <<ov, nextEmailId, nextFindingId>>
  /\ Frame

\* DELETE FROM analysis_results WHERE flagged_email_id = %s; then the loop
\* for phrase, count in phrase_counts_to_remove.items() starts
\* (emails_affected_decrement=1 for each).
DelFindings(c) ==
  /\ pc[c] = "del_findings"
  /\ LET K == FindingsOf(VFindings(c), call[c].id)
         todo == Keys(loc[c].old)
     IN /\ K \cap OthersLockF(c) = {}
        /\ ov' = [ov EXCEPT ![c].f = OvDel(@, K, findings), ![c].locks.f = @ \cup K]
        /\ loc' = [loc EXCEPT ![c].todo = todo,
                              ![c].ea = [p \in Phrases |-> IF p \in todo THEN 1 ELSE 0]]
        /\ Goto(c, NextPhrase(todo, "dec", "del_email"))
  /\ UNCHANGED <<nextEmailId, nextFindingId>>
  /\ Frame

\* DELETE FROM flagged_emails WHERE id = %s (analysis_results.flagged_email_id
\* REFERENCES flagged_emails(id) ON DELETE CASCADE); return cursor.rowcount > 0
DelEmail(c) ==
  /\ pc[c] = "del_email"
  /\ LET E == VEmails(c)
         id == call[c].id
         found == id \in DOMAIN E
         K == IF found THEN FindingsOf(VFindings(c), id) ELSE {}
     IN /\ found => E[id].hash \notin OthersLockE(c)
        /\ K \cap OthersLockF(c) = {}
        /\ ov' = [ov EXCEPT
                    ![c].e = IF found THEN OvDel(@, {id}, emails) ELSE @,
                    ![c].f = OvDel(@, K, findings),
                    ![c].locks.e = IF found THEN @ \cup {E[id].hash} ELSE @,
                    ![c].locks.f = @ \cup K]
        /\ loc' = [loc EXCEPT ![c].result = found]
  /\ Goto(c, "commit")
  /\ UNCHANGED <<nextEmailId, nextFindingId>>
  /\ Frame

DeleteEmailSteps(c) ==
  \/ DelCounts(c)
  \/ DelFindings(c)
  \/ DelEmail(c)

\* ------------------------------------------------- delete_analysis_result
DeleteFindingCall(c, Ids) ==
  \E fid \in Ids :
    Begin(c, [op |-> "delete_finding", fid |-> fid], "find_select")

\* SELECT suspicious_phrase, flagged_email_id FROM analysis_results WHERE id = %s;
\* if not result: return False
FindSelect(c) ==
  /\ pc[c] = "find_select"
  /\ LET F == VFindings(c)
         fid == call[c].fid
     IN IF fid \in DOMAIN F
          THEN /\ loc' = [loc EXCEPT ![c].cur = F[fid].phrase, ![c].id = F[fid].email]
               /\ Goto(c, "find_count")
          ELSE /\ loc' = [loc EXCEPT ![c].result = FALSE]
               /\ Goto(c, "commit")
  /\ UNCHANGED <<ov, nextEmailId, nextFindingId>>
  /\ Frame

\* Mutant: every deleted finding is taken for the email's last of its phrase.
IsLastOccurrenceAlways(current_count) == TRUE

\* is_last_occurrence_in_email = current_count == 1
IsLastOccurrence(current_count) == current_count = 1

\* SELECT COUNT(*) FROM analysis_results WHERE flagged_email_id = %s
\*   AND suspicious_phrase = %s
FindCount(c) ==
  /\ pc[c] = "find_count"
  /\ LET current_count == CountsByPhrase(VFindings(c), loc[c].id)[loc[c].cur]
     IN loc' = [loc EXCEPT ![c].isLast = IsLastOccurrence(current_count)]
  /\ Goto(c, "find_delete")
  /\ UNCHANGED <<ov, nextEmailId, nextFindingId>>
  /\ Frame

\* DELETE FROM analysis_results WHERE id = %s; deleted = cursor.rowcount > 0;
\* if deleted: _decrement_phrase_statistics(phrase, 1, 1 if is_last else 0)
FindDelete(c) ==
  /\ pc[c] = "find_delete"
  /\ LET fid == call[c].fid
         deleted == fid \in DOMAIN VFindings(c)
         p == loc[c].cur
     IN /\ fid \notin OthersLockF(c)
        /\ ov' = [ov EXCEPT ![c].f = IF deleted THEN OvDel(@, {fid}, findings) ELSE @,
                            ![c].locks.f = IF deleted THEN @ \cup {fid} ELSE @]
        /\ loc' = [loc EXCEPT
                     ![c].result = deleted,
                     ![c].todo = IF deleted THEN {p} ELSE {},
                     ![c].old = IF deleted THEN [Zero EXCEPT ![p] = 1] ELSE Zero,
                     ![c].ea = IF deleted /\ loc[c].isLast
                                 THEN [Zero EXCEPT ![p] = 1] ELSE Zero]
        /\ Goto(c, IF deleted THEN "dec" ELSE "commit")
  /\ UNCHANGED <<nextEmailId, nextFindingId>>
  /\ Frame

DeleteFindingSteps(c) ==
  \/ FindSelect(c)
  \/ FindCount(c)
  \/ FindDelete(c)

\* ------------------------------------------------------- cleanup_old_data
CleanupCall(c, Ds) ==
  \E days \in Ds : Begin(c, [op |-> "cleanup", days |-> days], "old_count")

\* Mutant: an email exactly as old as the threshold is purged too.
OldEmailsInclusive(E, t, days) == {k \in DOMAIN E : E[k].flagged_at <= t - days}

\* WHERE flagged_at < NOW() - make_interval(days => %s)
OldEmails(E, t, days) == {k \in DOMAIN E : E[k].flagged_at < t - days}

\* SELECT COUNT(*) FROM flagged_emails WHERE flagged_at < ...  (old_emails_count)
CleanCount(c) ==
  /\ pc[c] = "old_count"
  /\ loc' = [loc EXCEPT ![c].i =
               Cardinality(OldEmails(VEmails(c), call[c].time, call[c].days))]
  /\ Goto(c, "aggregate")
  /\ UNCHANGED <<ov, nextEmailId, nextFindingId>>
  /\ Frame

\* phrases_to_update: SELECT ar.suspicious_phrase, COUNT(*),
\*   COUNT(DISTINCT ar.flagged_email_id) FROM analysis_results ar JOIN
\*   flagged_emails fe ... WHERE fe.flagged_at < ... GROUP BY ar.suspicious_phrase
CleanAggregate(c) ==
  /\ pc[c] = "aggregate"
  /\ LET F == VFindings(c)
         aged == OldEmails(VEmails(c), call[c].time, call[c].days)
         rows(p) == {k \in DOMAIN F : F[k].phrase = p /\ F[k].email \in aged}
     IN loc' = [loc EXCEPT
                  ![c].old = [p \in Phrases |-> Cardinality(rows(p))],
                  ![c].ea = [p \in Phrases |-> Cardinality({F[k].email : k \in rows(p)})]]
  /\ Goto(c, "purge_findings")
  /\ UNCHANGED <<ov, nextEmailId, nextFindingId>>
  /\ Frame

\* DELETE FROM analysis_results WHERE flagged_email_id IN (SELECT id FROM
\*   flagged_emails WHERE flagged_at < ...); analysis_deleted = cursor.rowcount
CleanFindings(c) ==
  /\ pc[c] = "purge_findings"
  /\ LET F == VFindings(c)
         aged == OldEmails(VEmails(c), call[c].time, call[c].days)
         K == {k \in DOMAIN F : F[k].email \in aged}
         todo == Keys(loc[c].old)
     IN /\ K \cap OthersLockF(c) = {}
        /\ ov' = [ov EXCEPT ![c].f = OvDel(@, K, findings), ![c].locks.f = @ \cup K]
        /\ loc' = [loc EXCEPT ![c].n = Cardinality(K), ![c].todo = todo]
        /\ Goto(c, NextPhrase(todo, "dec", "purge_emails"))
  /\ UNCHANGED <<nextEmailId, nextFindingId>>
  /\ Frame

\* DELETE FROM flagged_emails WHERE flagged_at < ... (cascading);
\* emails_deleted = cursor.rowcount
CleanEmails(c) ==
  /\ pc[c] = "purge_emails"
  /\ LET E == VEmails(c)
         F == VFindings(c)
         aged == OldEmails(E, call[c].time, call[c].days)
         H == {E[k].hash : k \in aged}
         K == {k \in DOMAIN F : F[k].email \in aged}
     IN /\ H \cap OthersLockE(c) = {}
        /\ K \cap OthersLockF(c) = {}
        /\ ov' = [ov EXCEPT ![c].e = OvDel(@, aged, emails),
                            ![c].f = OvDel(@, K, findings),
                            ![c].locks.e = @ \cup H,
                            ![c].locks.f = @ \cup K]
        /\ loc' = [loc EXCEPT ![c].result =
                     [emails_deleted |-> Cardinality(aged),
                      analysis_results_deleted |-> loc[c].n]]
  /\ Goto(c, "commit")
  /\ UNCHANGED <<nextEmailId, nextFindingId>>
  /\ Frame

CleanupSteps(c) ==
  \/ CleanCount(c)
  \/ CleanAggregate(c)
  \/ CleanFindings(c)
  \/ CleanEmails(c)

\* --------------------------------------------------- update_flagged_email
\* The field maps callers pass: none, only fields outside the allow-list, an
\* allow-listed field, and both kinds together.
OtherHash == _generate_email_hash(2)
FieldMaps ==
  {EmptyFn,
   [f \in {"id", "email_hash", "flagged_at"} |->
      CASE f = "id" -> 2 [] f = "email_hash" -> OtherHash [] f = "flagged_at" -> 1],
   [f \in {"email_subject"} |-> 2],
   [f \in {"email_subject", "id", "email_hash", "flagged_at"} |->
      CASE f = "email_subject" -> 2 [] f = "id" -> 2
        [] f = "email_hash" -> OtherHash [] f = "flagged_at" -> 1]}

UpdateEmailCall(c, Ids, Maps) ==
  \E id \in Ids, updates \in Maps :
    Begin(c, [op |-> "update_email", id |-> id, updates |-> updates], "update")

\* Mutant: the fingerprint and the flagging time are updatable too.
valid_fields_and_keys ==
  {"email_subject", "email_from", "email_to", "email_date",
   "total_suspicious_findings", "email_content", "risk_level",
   "email_hash", "flagged_at"}

valid_fields ==
  {"email_subject", "email_from", "email_to", "email_date",
   "total_suspicious_findings", "email_content", "risk_level"}

\* The field of the model's row that holds a column of flagged_emails; the
\* four header columns are the row's header set.
Column(field) ==
  CASE field \in {"email_subject", "email_from", "email_to", "email_date"} -> "hdr"
    [] field = "total_suspicious_findings" -> "total"
    [] field = "email_content" -> "content"
    [] field = "email_hash" -> "hash"
    [] OTHER -> field

\* SET field = %s, ... : the row with the given columns replaced.
SetColumns(row, update_fields) ==
  [col \in DOMAIN row |->
     IF \E f \in DOMAIN update_fields : Column(f) = col
       THEN update_fields[CHOOSE f \in DOMAIN update_fields : Column(f) = col]
       ELSE row[col]]

\* Mutant: the UPDATE has no WHERE clause.
MatchedAll(V, id) == DOMAIN V

\* WHERE id = %s: the rows the statement changes (cursor.rowcount of them).
Matched(V, id) == {id} \cap DOMAIN V

\* update_fields = {k: v for k, v in updates.items() if k in valid_fields};
\* if not update_fields: return False;
\* UPDATE flagged_emails SET ... WHERE id = %s; return cursor.rowcount > 0
UpdateRow(c) ==
  /\ pc[c] = "update"
  /\ LET updates == call[c].updates
         update_fields == Restrict(updates, DOMAIN updates \cap valid_fields)
         V == VEmails(c)
         hit == IF DOMAIN update_fields = {} THEN {} ELSE Matched(V, call[c].id)
         H == {V[k].hash : k \in hit}
         put == [k \in hit |-> SetColumns(V[k], update_fields)]
     IN /\ H \cap OthersLockE(c) = {}
        /\ ov' = [ov EXCEPT ![c].e = [put |-> put @@ @.put, del |-> @.del],
                            ![c].locks.e = @ \cup H]
        /\ loc' = [loc EXCEPT ![c].result = hit # {}]
  /\ Goto(c, "commit")
  /\ UNCHANGED <<nextEmailId, nextFindingId>>
  /\ Frame

\* ------------------------------------------------- update_analysis_result
\* The field maps callers pass: a new phrase, or a field outside the allow-list.
ResultMaps ==
  {[f \in {"suspicious_phrase"} |-> "a"],
   [f \in {"suspicious_phrase"} |-> "b"],
   [f \in {"flagged_email_id"} |-> 0]}

UpdateResultCall(c, Ids, Maps) ==
  \E fid \in Ids, updates \in Maps :
    Begin(c, [op |-> "update_finding", fid |-> fid, updates |-> updates], "upd_result")

valid_result_fields ==
  {"suspicious_phrase", "segment_type", "line_number", "context_content"}

\* update_fields = {k: v for k, v in updates.items() if k in valid_fields};
\* if not update_fields: return False;
\* UPDATE analysis_results SET ... WHERE id = %s; return cursor.rowcount > 0.
\* Of the updatable columns the model's row holds the phrase.
UpdateResult(c) ==
  /\ pc[c] = "upd_result"
  /\ LET updates == call[c].updates
         update_fields == Restrict(updates, DOMAIN updates \cap valid_result_fields)
         F == VFindings(c)
         hit == IF DOMAIN update_fields = {} THEN {} ELSE {call[c].fid} \cap DOMAIN F
         put == [k \in hit |->
                   IF "suspicious_phrase" \in DOMAIN update_fields
                     THEN [F[k] EXCEPT !.phrase = update_fields["suspicious_phrase"]]
                     ELSE F[k]]
     IN /\ hit \cap OthersLockF(c) = {}
        /\ ov' = [ov EXCEPT ![c].f = [put |-> put @@ @.put, del |-> @.del],
                            ![c].locks.f = @ \cup hit]
        /\ loc' = [loc EXCEPT ![c].result = hit # {}]
  /\ Goto(c, "commit")
  /\ UNCHANGED <<nextEmailId, nextFindingId>>
  /\ Frame

\* ------------------------------------------------- delete_phrase_statistic
\* The caller passes the id of a ledger row: that of the row of a phrase (the
\* row gone, its id names nothing).
DeletePhraseCall(c, Ps) ==
  \E p \in Ps : Begin(c, [op |-> "delete_phrase", phrase |-> p], "del_phrase")

\* DELETE FROM phrase_statistics WHERE id = %s; return cursor.rowcount > 0
DelPhrase(c) ==
  /\ pc[c] = "del_phrase"
  /\ LET p == call[c].phrase
         hit == p \in DOMAIN VStats(c)
     IN /\ hit => p \notin OthersLockS(c)
        /\ ov' = [ov EXCEPT ![c].s = IF hit THEN OvDel(@, {p}, stats) ELSE @,
                            ![c].locks.s = IF hit THEN @ \cup {p} ELSE @]
        /\ loc' = [loc EXCEPT ![c].result = hit]
  /\ Goto(c, "commit")
  /\ UNCHANGED <<nextEmailId, nextFindingId>>
  /\ Frame

\* --------------------------------------------------- get_occurrence_report
\* The report runs three statements on the caller's connection, outside
\* _execute_in_transaction: each statement reads the rows committed when it
\* runs.  loc.snaps collects the committed states its statements have read.
RECURSIVE SumOver(_, _)
SumOver(E, K) ==
  IF K = {} THEN 0
  ELSE LET k == CHOOSE x \in K : TRUE IN E[k].total + SumOver(E, K \ {k})

\* SELECT COUNT(*), SUM(total_suspicious_findings), COUNT(DISTINCT email_hash)
\* FROM flagged_emails
Summary(E) ==
  [total_flagged_emails |-> Cardinality(DOMAIN E),
   total_findings |-> SumOver(E, DOMAIN E),
   unique_emails |-> Cardinality({E[k].hash : k \in DOMAIN E})]

\* SELECT suspicious_phrase, total_occurrences, emails_affected FROM
\* phrase_statistics ORDER BY total_occurrences DESC LIMIT 10
TopPhrases(S) == {<<p, S[p].total, S[p].ea>> : p \in DOMAIN S}

\* SELECT fe.email_subject, fe.flagged_at, fe.total_suspicious_findings FROM
\* flagged_emails fe ORDER BY fe.flagged_at DESC LIMIT 10; one entry per row
\* (k tells equal entries of different rows apart).
RecentActivity(E) == {<<k, E[k].hdr, E[k].flagged_at, E[k].total>> : k \in DOMAIN E}

ReportCall(c) == Begin(c, [op |-> "report"], "rep_totals")

Snapshot(c) == [e |-> VEmails(c), s |-> VStats(c)]

ReportTotals(c) ==
  /\ pc[c] = "rep_totals"
  /\ loc' = [loc EXCEPT ![c].report.summary = Summary(VEmails(c)),
                        ![c].snaps = @ \cup {Snapshot(c)}]
  /\ Goto(c, "rep_phrases")
  /\ UNCHANGED <<ov, nextEmailId, nextFindingId>>
  /\ Frame

ReportPhrases(c) ==
  /\ pc[c] = "rep_phrases"
  /\ loc' = [loc EXCEPT ![c].report.top_phrases = TopPhrases(VStats(c)),
                        ![c].snaps = @ \cup {Snapshot(c)}]
  /\ Goto(c, "rep_recent")
  /\ UNCHANGED <<ov, nextEmailId, nextFindingId>>
  /\ Frame

ReportRecent(c) ==
  /\ pc[c] = "rep_recent"
  /\ loc' = [loc EXCEPT ![c].report.recent_activity = RecentActivity(VEmails(c)),
                        ![c].snaps = @ \cup {Snapshot(c)}]
  /\ Goto(c, "rep_return")
  /\ UNCHANGED <<ov, nextEmailId, nextFindingId>>
  /\ Frame

\* return {'summary': ..., 'top_phrases': ..., 'recent_activity': ...}: nothing
\* is committed, nothing was written.
ReportReturn(c) ==
  /\ pc[c] = "rep_return"
  /\ ret' = [ret EXCEPT ![c] = [op |-> "report", kind |-> "ok", val |-> loc[c].report]]
  /\ pc' = [pc EXCEPT ![c] = "idle"]
  /\ call' = [call EXCEPT ![c] = NoCall]
  /\ loc' = [loc EXCEPT ![c] = InitLoc]
  /\ UNCHANGED <<emails, findings, stats, nextEmailId, nextFindingId, now, ops,
                 ov, stored, mark, conn>>

ReportSteps(c) ==
  \/ ReportTotals(c)
  \/ ReportPhrases(c)
  \/ ReportRecent(c)
  \/ ReportReturn(c)

\* --------------------------------------------------------- specifications
Steps(c) ==
  \/ StoreSteps(c)
  \/ DeleteEmailSteps(c)
  \/ DeleteFindingSteps(c)
  \/ CleanupSteps(c)
  \/ DecStat(c)
  \/ DecRetire(c)
  \/ Commit(c)
  \/ Fail(c)

\* The contents are interchangeable (two contents differ in their hash and in
\* nothing else): while no email was ever inserted and no operation is in
\* progress, the content to store is content 1.
StoreContents ==
  IF nextEmailId = 1 /\ \A d \in Clients : pc[d] = "idle" THEN {1} ELSE Contents

\* One caller: its operations run one after the other, every store with the
\* same header set.  Ids 0 and those of deleted rows are ids that do not exist.
Calls(c) ==
  \/ StoreCall(c, StoreContents, {1}, Batches)
  \/ DeleteEmailCall(c, 0..(nextEmailId - 1))
  \/ DeleteFindingCall(c, 0..(nextFindingId - 1))
  \/ CleanupCall(c, DaysOld)

Next ==
  \/ Tick(1)
  \/ ops < MaxOps /\ Calls(1)
  \/ Steps(1)

Spec == Init /\ [][Next]_vars

\* Concurrent callers, each on its own connection.  The last operation of a
\* run may overlap the one before it; the operations before these run alone
\* and build the rows the two work on.  The callers are interchangeable, so
\* that of two idle callers the one to start is caller 1.  A caller deletes by
\* an id it has read: that of a committed row.
MayCall(c) ==
  /\ ops < MaxConcOps
  /\ ops + 1 < MaxConcOps => \A d \in Clients : pc[d] = "idle"
  /\ c = 2 => pc[1] # "idle"

ConcBatches == {<<"a", "a">>, <<"a", "b">>}

ConcCalls(c) ==
  \/ StoreCall(c, Contents, {1}, ConcBatches)
  \/ DeleteEmailCall(c, DOMAIN emails)
  \/ DeleteFindingCall(c, DOMAIN findings)
  \/ CleanupCall(c, {0})

NextConc ==
  \/ \E c \in Clients : Tick(c)
  \/ \E c \in Clients : MayCall(c) /\ ConcCalls(c)
  \/ \E c \in Clients : Steps(c)

SpecConc == Init /\ [][NextConc]_vars

\* Concurrent callers of store_flagged_email alone.
NextStores ==
  \/ \E c \in Clients : MayCall(c) /\ StoreCall(c, StoreContents, {1}, Batches)
  \/ \E c \in Clients : StoreSteps(c) \/ Commit(c) \/ Fail(c)

SpecStores == Init /\ [][NextStores]_vars

\* One caller that also updates emails.  Ids 0 and those of deleted rows are
\* ids that do not exist.
UpdateBatches == {<<"a">>, <<"a", "b">>}

NextUpdate ==
  \/ ops < MaxOps /\ StoreCall(1, Contents, Headers, UpdateBatches)
  \/ ops < MaxOps /\ DeleteEmailCall(1, 0..(nextEmailId - 1))
  \/ ops < MaxOps /\ DeleteFindingCall(1, 0..(nextFindingId - 1))
  \/ ops < MaxOps /\ UpdateEmailCall(1, 0..(nextEmailId - 1), FieldMaps)
  \/ StoreSteps(1) \/ DeleteEmailSteps(1) \/ DeleteFindingSteps(1) \/ UpdateRow(1)
  \/ DecStat(1) \/ DecRetire(1) \/ Commit(1) \/ Fail(1)

SpecUpdate == Init /\ [][NextUpdate]_vars

\* Two operations from a marked state: the operations before the mark run
\* alone, the two after it run one after the other or overlap, and commit in
\* either order.
SetMark ==
  /\ \A c \in Clients : pc[c] = "idle"
  /\ ~mark.on
  /\ ops + 2 = MaxConcOps
  /\ mark' = [on |-> TRUE, e |-> emails, f |-> findings, s |-> stats, calls |-> << >>]
  /\ UNCHANGED <<emails, findings, stats, nextEmailId, nextFindingId, now, ops,
                 pc, call, loc, ov, ret, stored, conn>>

OrderCalls(c) ==
  \/ StoreCall(c, Contents, {1}, ConcBatches)
  \/ DeleteEmailCall(c, DOMAIN emails)
  \/ DeleteFindingCall(c, DOMAIN findings)

NextOrder ==
  \/ SetMark
  \/ \E c \in Clients : (mark.on <=> ops + 2 >= MaxConcOps) /\ MayCall(c) /\ OrderCalls(c)
  \/ \E c \in Clients : StoreSteps(c) \/ DeleteEmailSteps(c) \/ DeleteFindingSteps(c)
  \/ \E c \in Clients : DecStat(c) \/ DecRetire(c) \/ Commit(c) \/ Fail(c)

SpecOrder == Init /\ [][NextOrder]_vars

\* Callers that write and callers that read the occurrence report.
NextRead ==
  \/ \E c \in Clients : MayCall(c) /\ (ConcCalls(c) \/ ReportCall(c))
  \/ \E c \in Clients : Steps(c) \/ ReportSteps(c)

SpecRead == Init /\ [][NextRead]_vars

\* One caller whose connection may break while an operation runs.  A statement
\* runs, or fails for another reason and is rolled back, on a connection that
\* works.
NextConn ==
  \/ ops < MaxOps /\ StoreCall(1, Contents, {1}, UpdateBatches)
  \/ ops < MaxOps /\ DeleteEmailCall(1, 0..(nextEmailId - 1))
  \/ conn[1] = "open" /\ (StoreSteps(1) \/ DeleteEmailSteps(1))
  \/ conn[1] = "open" /\ (DecStat(1) \/ DecRetire(1) \/ Fail(1))
  \/ Commit(1)
  \/ Lose(1)
  \/ Broken(1)

SpecConn == Init /\ [][NextConn]_vars

\* One caller that stores emails and deletes ledger rows.
NextLedger ==
  \/ ops < MaxOps /\ StoreCall(1, Contents, {1}, Batches)
  \/ ops < MaxOps /\ DeletePhraseCall(1, Phrases)
  \/ StoreSteps(1)
  \/ DelPhrase(1)
  \/ Commit(1)
  \/ Fail(1)

SpecLedger == Init /\ [][NextLedger]_vars

\* One caller that stores emails and updates findings.  Id 0 is an id that
\* does not exist.
NextResult ==
  \/ ops < MaxOps /\ StoreCall(1, Contents, {1}, UpdateBatches)
  \/ ops < MaxOps /\ UpdateResultCall(1, 0..(nextFindingId - 1), ResultMaps)
  \/ StoreSteps(1)
  \/ UpdateResult(1)
  \/ Commit(1)
  \/ Fail(1)

SpecResult == Init /\ [][NextResult]_vars

\* One caller that stores emails and updates their subject or their content.
\* Id 0 is an id that does not exist.
ContentMaps == {[f \in {"email_subject"} |-> 2], [f \in {"email_content"} |-> 2]}

NextFields ==
  \/ ops < MaxOps /\ StoreCall(1, Contents, Headers, UpdateBatches)
  \/ ops < MaxOps /\ UpdateEmailCall(1, 0..(nextEmailId - 1), ContentMaps)
  \/ StoreSteps(1)
  \/ UpdateRow(1)
  \/ Commit(1)
  \/ Fail(1)

SpecFields == Init /\ [][NextFields]_vars

\* --------------------------------------------------------------- claims
AllIdle == \A c \in Clients : pc[c] = "idle"
Succeeded(c, op) == ret[c].op = op /\ ret[c].kind = "ok"

\* The Finding rows of phrase p owned by stored emails, and their owners.
RowsOf(p) ==
  {k \in DOMAIN findings : findings[k].phrase = p /\ findings[k].email \in DOMAIN emails}
OwnersOf(p) == {findings[k].email : k \in RowsOf(p)}

TotalMatches(p) == stats[p].total = Cardinality(RowsOf(p))
AffectedMatches(p) == stats[p].ea = Cardinality(OwnersOf(p))

\* C1: every phrase with a ledger row has total_occurrences equal to the
\* number of Finding rows of that phrase over all stored emails, in every
\* committed state a sequence of store, delete_email, delete_finding and
\* cleanup operations (failed ones included) leads to.
C1_TotalOccurrences == \A p \in DOMAIN stats : TotalMatches(p)

\* delete_finding has removed one of two findings of a phrase and is about to
\* commit a ledger row that counts the one left.
C1_Witness ==
  /\ pc[1] = "commit"
  /\ call[1].op = "delete_finding"
  /\ loc[1].result = TRUE
  /\ ~loc[1].isLast
  /\ VStats(1)[loc[1].cur].total = 1

\* C2: every phrase with a ledger row has emails_affected equal to the number
\* of distinct stored emails that own at least one Finding of that phrase.
C2_EmailsAffected == \A p \in DOMAIN stats : AffectedMatches(p)

\* delete_email has removed an email that shared a phrase with another email
\* and is about to commit a ledger row that counts the other email alone.
C2_Witness ==
  /\ pc[1] = "commit"
  /\ call[1].op = "delete_email"
  /\ loc[1].result = TRUE
  /\ \E p \in Keys(loc[1].old) : p \in DOMAIN VStats(1) /\ VStats(1)[p].ea = 1

\* A store of caller c commits in this step.
StoreCommits(c) ==
  /\ pc[c] = "commit"
  /\ call[c].op = "store"
  /\ pc'[c] = "idle"
  /\ ret'[c].kind = "ok"

PastUpsert(c) == call[c].op = "store" /\ pc[c] \notin {"idle", "upsert"}
UniqueHash(E) == \A i, j \in DOMAIN E : E[i].hash = E[j].hash => i = j

\* C4: no two flagged_emails rows share a fingerprint, in the committed
\* relation and in what any transaction sees; a store has is_new = true
\* exactly when it inserted the row (no committed row of that id), and no two
\* transactions in progress both created a row for the same content.
C4_UniqueFingerprint ==
  /\ UniqueHash(emails)
  /\ \A c \in Clients : UniqueHash(VEmails(c))
  /\ \A c \in Clients : PastUpsert(c) => (loc[c].isNew <=> loc[c].id \notin DOMAIN emails)
  /\ \A c, d \in Clients :
       (c # d /\ PastUpsert(c) /\ PastUpsert(d) /\ call[c].content = call[d].content)
          => ~(loc[c].isNew /\ loc[d].isNew)

\* Caller 1 has inserted the row of a new content and caller 2, storing the
\* same content, is at its upsert.
C4_Witness ==
  /\ PastUpsert(1)
  /\ loc[1].isNew
  /\ pc[2] = "upsert"
  /\ call[2].content = call[1].content

\* The ledger is exactly what the stored findings imply: a phrase has a row
\* iff it has findings, and both counters match.
LedgerExact ==
  \A p \in Phrases :
    IF p \in DOMAIN stats
      THEN TotalMatches(p) /\ AffectedMatches(p) /\ RowsOf(p) # {}
      ELSE RowsOf(p) = {}

\* C5: two stores of the same fingerprint are never both past the upsert; a
\* re-analysis works from the committed findings of its email; and once no
\* store is in progress the ledger is exact and every email's
\* total_suspicious_findings is the number of findings it owns.
C5_StoresSerialized ==
  /\ \A c, d \in Clients :
       (c # d /\ PastUpsert(c) /\ PastUpsert(d)) => loc[c].id # loc[d].id
  /\ \A c \in Clients :
       (PastUpsert(c) /\ ~loc[c].isNew /\ pc[c] \notin {"lock", "old_counts"})
          => loc[c].old = CountsByPhrase(findings, loc[c].id)
  /\ AllIdle =>
       /\ LedgerExact
       /\ \A k \in DOMAIN emails :
            emails[k].total = Cardinality(FindingsOf(findings, k))

\* Caller 1 re-analyses an email that has findings while caller 2, storing
\* the same content, waits at its upsert.
C5_Witness ==
  /\ PastUpsert(1)
  /\ ~loc[1].isNew
  /\ Keys(loc[1].old) # {}
  /\ pc[1] = "commit"
  /\ pc[2] = "upsert"
  /\ call[2].content = call[1].content
  /\ call[2].batch # call[1].batch

\* C6 (as claimed): once a store and a delete_email have both committed and
\* nothing is in progress, the ledger is exactly what the findings imply.
C6_DeleteSerializedWithStore ==
  (AllIdle /\ \E c, d \in Clients :
                Succeeded(c, "store") /\ Succeeded(d, "delete_email"))
     => LedgerExact

\* Caller c cannot run its next statement because of a row lock caller d holds.
WaitsFor(c, d) ==
  /\ c # d
  /\ CASE pc[c] = "upsert" ->
            _generate_email_hash(call[c].content) \in ov[d].locks.e
       [] pc[c] \in {"clear", "del_findings"} ->
            FindingsOf(VFindings(c), loc[c].id) \cap ov[d].locks.f # {}
       [] pc[c] = "stat_upsert" ->
            \A p \in loc[c].todo : p \in ov[d].locks.s
       [] pc[c] = "dec" ->
            \A p \in loc[c].todo : p \in DOMAIN VStats(c) /\ p \in ov[d].locks.s
       [] pc[c] = "del_email" ->
            /\ call[c].id \in DOMAIN VEmails(c)
            /\ VEmails(c)[call[c].id].hash \in ov[d].locks.e
       [] pc[c] = "find_delete" -> call[c].fid \in ov[d].locks.f
       [] OTHER -> FALSE

\* C7 (as claimed): no two transactions ever wait for each other's locks.
C7_NoCyclicWait == \A c, d \in Clients : ~(WaitsFor(c, d) /\ WaitsFor(d, c))

\* The emails that own exactly one finding, of phrase p.
SinglesOf(p) ==
  {k \in DOMAIN emails :
     /\ Cardinality(FindingsOf(findings, k)) = 1
     /\ \A f \in FindingsOf(findings, k) : findings[f].phrase = p}

\* C8: once the stores have ended, a phrase whose findings are one each in N
\* emails has total_occurrences = N and emails_affected = N.
C8_SharedPhrase ==
  AllIdle =>
    \A p \in Phrases :
      (SinglesOf(p) # {} /\ OwnersOf(p) = SinglesOf(p)) =>
         /\ p \in DOMAIN stats
         /\ stats[p].total = Cardinality(SinglesOf(p))
         /\ stats[p].ea = Cardinality(SinglesOf(p))

\* Two stores of different new emails, one occurrence of the same phrase
\* each, are in progress while the phrase has no committed ledger row: one has
\* written the row, the other is at its ledger upsert.
C8_Witness ==
  /\ call[1].op = "store" /\ call[2].op = "store"
  /\ call[1].content # call[2].content
  /\ call[1].batch = <<"a">> /\ call[2].batch = <<"a">>
  /\ loc[1].isNew /\ loc[2].isNew
  /\ "a" \notin DOMAIN stats
  /\ pc[1] = "commit"
  /\ pc[2] = "stat_upsert"

\* C9 (as claimed): after two delete_finding calls have both deleted their
\* finding, every ledger row has the counters the remaining findings imply.
C9_ConcurrentDeleteFinding ==
  (AllIdle /\ \A c \in Clients : Succeeded(c, "delete_finding") /\ ret[c].val = TRUE)
     => \A p \in DOMAIN stats : TotalMatches(p) /\ AffectedMatches(p)

\* C10: the committed relations change only in the step that commits an
\* operation that returns normally; an operation that does not ends with a
\* raised failure and leaves the committed relations as they were.
C10_FailureLeavesStateUnchanged ==
  [][/\ db' # db =>
          \E c \in Clients : pc[c] = "commit" /\ pc'[c] = "idle" /\ ret'[c].kind = "ok"
     /\ \A c \in Clients :
          (pc[c] # "idle" /\ pc'[c] = "idle" /\ pc[c] # "commit")
             => ret'[c].kind = "raised" /\ db' = db
     /\ \A c \in Clients :
          (pc[c] = "commit" /\ pc'[c] = "idle" /\ ret'[c].kind # "ok")
             => ret'[c].kind = "raised" /\ db' = db]_vars

\* A store failed after it had inserted the email and findings: none is stored.
C10_Witness ==
  /\ ret[1].op = "store"
  /\ ret[1].kind = "raised"
  /\ nextEmailId > 1
  /\ nextFindingId > 1
  /\ emails = EmptyFn
  /\ findings = EmptyFn
  /\ stats = EmptyFn

\* The report a reader would return had it read everything in state s.
ReportOf(s) ==
  [summary |-> Summary(s.e), top_phrases |-> TopPhrases(s.s),
   recent_activity |-> RecentActivity(s.e)]

\* C11: the occurrence report a reader is about to return is the report of one
\* committed state, one of those that existed while it ran: its summary of the
\* emails and its ledger counters come from the same side of every
\* transaction that committed meanwhile.
C11_NoPartialState ==
  \A c \in Clients :
    pc[c] = "rep_return" => \E s \in loc[c].snaps : loc[c].report = ReportOf(s)

\* The counters of phrase p in ledger S; a phrase without a row counts zero.
Tot(S, p) == IF p \in DOMAIN S THEN S[p].total ELSE 0
Aff(S, p) == IF p \in DOMAIN S THEN S[p].ea ELSE 0
SameRow(S, T, p) ==
  (p \in DOMAIN S <=> p \in DOMAIN T) /\ (p \in DOMAIN S => S[p] = T[p])
BatchCount(batch, p) == Cardinality({i \in DOMAIN batch : batch[i] = p})
Without(T, K) == Restrict(T, DOMAIN T \ K)

\* The operation op of caller c commits in this step.
Commits(c, op) ==
  /\ pc[c] = "commit"
  /\ call[c].op = op
  /\ pc'[c] = "idle"
  /\ ret'[c].kind = "ok"

\* The committed email with the fingerprint of this content, if any.
EmailOf(content) ==
  {k \in DOMAIN emails : emails[k].hash = _generate_email_hash(content)}

\* C12: a committing store of an email whose fingerprint is not stored adds,
\* for every phrase p of its batch, the batch's count to total_occurrences(p)
\* and 1 to emails_affected(p), p having a ledger row afterwards; the row of a
\* phrase not in the batch is left as it was.
C12_NewEmailStore ==
  [][\A c \in Clients :
       (Commits(c, "store") /\ EmailOf(call[c].content) = {}) =>
          \A p \in Phrases :
            LET n == BatchCount(call[c].batch, p)
            IN IF n > 0
                 THEN /\ p \in DOMAIN stats'
                      /\ stats'[p].total = Tot(stats, p) + n
                      /\ stats'[p].ea = Aff(stats, p) + 1
                 ELSE SameRow(stats', stats, p)]_vars

\* The store of a new email is about to commit: its batch holds a phrase
\* another email has, and a phrase no ledger row exists for.
C12_Witness ==
  /\ pc[1] = "commit"
  /\ call[1].op = "store"
  /\ EmailOf(call[1].content) = {}
  /\ \E p \in DOMAIN stats : BatchCount(call[1].batch, p) > 0
  /\ \E p \in Phrases \ DOMAIN stats : BatchCount(call[1].batch, p) > 0

\* C13: a committing store of an email already stored changes, for every
\* phrase p, total_occurrences(p) by new_count - old_count and
\* emails_affected(p) by +1 (old_count = 0 < new_count), -1 (old_count > 0 =
\* new_count) or 0, where old_count is what the email held and new_count what
\* the batch holds; the row of a phrase in neither is left as it was.
C13_ReanalysisDelta ==
  [][\A c \in Clients :
       Commits(c, "store") =>
          \A id \in EmailOf(call[c].content), p \in Phrases :
            LET old_count == CountsByPhrase(findings, id)[p]
                new_count == BatchCount(call[c].batch, p)
                emails_affected_delta ==
                  IF old_count = 0 /\ new_count > 0 THEN 1
                  ELSE IF old_count > 0 /\ new_count = 0 THEN -1 ELSE 0
            IN IF old_count = 0 /\ new_count = 0
                 THEN SameRow(stats', stats, p)
                 ELSE /\ Tot(stats', p) = Tot(stats, p) + new_count - old_count
                      /\ Aff(stats', p) = Aff(stats, p) + emails_affected_delta]_vars

\* The re-analysis of an email is about to commit: it drops a phrase another
\* email still holds and changes the count of a phrase it keeps.
C13_Witness ==
  /\ pc[1] = "commit"
  /\ call[1].op = "store"
  /\ EmailOf(call[1].content) # {}
  /\ \E p \in Phrases :
       loc[1].old[p] > 0 /\ loc[1].new[p] = 0 /\ p \in DOMAIN VStats(1)
  /\ \E p \in Phrases :
       loc[1].old[p] > 0 /\ loc[1].new[p] > 0 /\ loc[1].new[p] # loc[1].old[p]

\* C14: no committed ledger row has both counters at zero or below.
C14_NoZeroRow ==
  \A p \in DOMAIN stats : ~(stats[p].total <= 0 /\ stats[p].ea <= 0)

\* A re-analysis that drops the only occurrences of a phrase is about to
\* commit: the phrase's committed row is gone from what it will commit.
C14_Witness ==
  /\ pc[1] = "commit"
  /\ call[1].op = "store"
  /\ \E p \in DOMAIN stats : loc[1].old[p] > 0 /\ p \notin DOMAIN VStats(1)

\* C15: a committing delete_finding of an existing Finding of phrase p in
\* email e removes that Finding and no other row, takes 1 from
\* total_occurrences(p), and takes 1 from emails_affected(p) exactly when e
\* held one Finding of p; it returns true and leaves the other phrases' rows.
C15_DeleteFinding ==
  [][\A c \in Clients :
       (Commits(c, "delete_finding") /\ call[c].fid \in DOMAIN findings) =>
          LET fid == call[c].fid
              p == findings[fid].phrase
              e == findings[fid].email
              only == CountsByPhrase(findings, e)[p] = 1
          IN /\ ret'[c].val = TRUE
             /\ findings' = Without(findings, {fid})
             /\ emails' = emails
             /\ Tot(stats', p) = Tot(stats, p) - 1
             /\ Aff(stats', p) = Aff(stats, p) - (IF only THEN 1 ELSE 0)
             /\ \A q \in Phrases \ {p} : SameRow(stats', stats, q)]_vars

\* A delete_finding of an email's only Finding of a phrase that another email
\* holds too is about to commit.
C15_Witness ==
  /\ pc[1] = "commit"
  /\ call[1].op = "delete_finding"
  /\ loc[1].result = TRUE
  /\ loc[1].isLast
  /\ loc[1].cur \in DOMAIN VStats(1)

\* C16: a committing delete_email of an existing email removes its row and
\* its Findings and no other, takes from each phrase it held with count n > 0
\* n of total_occurrences and 1 of emails_affected, the phrase keeping a
\* ledger row exactly when another email holds it, and returns true.
C16_DeleteEmail ==
  [][\A c \in Clients :
       (Commits(c, "delete_email") /\ call[c].id \in DOMAIN emails) =>
          LET id == call[c].id
              held == CountsByPhrase(findings, id)
          IN /\ ret'[c].val = TRUE
             /\ emails' = Without(emails, {id})
             /\ findings' = Without(findings, FindingsOf(findings, id))
             /\ \A p \in Phrases :
                  IF held[p] > 0
                    THEN /\ Tot(stats', p) = Tot(stats, p) - held[p]
                         /\ Aff(stats', p) = Aff(stats, p) - 1
                         /\ p \in DOMAIN stats' <=> OwnersOf(p) \ {id} # {}
                    ELSE SameRow(stats', stats, p)]_vars

\* A delete_email is about to commit for an email holding a phrase that
\* another email holds too and a phrase that no other email holds.
C16_Witness ==
  /\ pc[1] = "commit"
  /\ call[1].op = "delete_email"
  /\ loc[1].result = TRUE
  /\ \E p \in Phrases : loc[1].old[p] > 0 /\ p \in DOMAIN VStats(1)
  /\ \E p \in Phrases : loc[1].old[p] > 0 /\ p \notin DOMAIN VStats(1)

\* The emails older than the threshold of the cleanup caller c runs.
Aged(c) == {k \in DOMAIN emails : emails[k].flagged_at < call[c].time - call[c].days}

\* C17: a committing cleanup removes exactly the emails older than the
\* threshold and their Findings, takes from every phrase the occurrences and
\* the number of distinct emails the purged emails contributed, leaves a
\* ledger row exactly to the phrases a retained email holds, and reports the
\* number of purged emails as emails_deleted.
C17_Cleanup ==
  [][\A c \in Clients :
       Commits(c, "cleanup") =>
          LET gone == {k \in DOMAIN findings : findings[k].email \in Aged(c)}
          IN /\ emails' = Without(emails, Aged(c))
             /\ findings' = Without(findings, gone)
             /\ ret'[c].val.emails_deleted = Cardinality(Aged(c))
             /\ \A p \in Phrases :
                  LET rows == {k \in gone : findings[k].phrase = p}
                      owners == {findings[k].email : k \in rows}
                  IN IF rows = {}
                       THEN SameRow(stats', stats, p)
                       ELSE /\ Tot(stats', p) = Tot(stats, p) - Cardinality(rows)
                            /\ Aff(stats', p) = Aff(stats, p) - Cardinality(owners)
                            /\ p \in DOMAIN stats' <=> OwnersOf(p) \ Aged(c) # {}]_vars

\* A cleanup is about to commit that purges an email and retains another, the
\* purged one holding a phrase the retained one holds and a phrase it does not.
C17_Witness ==
  /\ pc[1] = "commit"
  /\ call[1].op = "cleanup"
  /\ loc[1].result.emails_deleted = 1
  /\ Cardinality(DOMAIN emails) = 2
  /\ \E p \in Phrases : loc[1].old[p] > 0 /\ p \in DOMAIN VStats(1)
  /\ \E p \in Phrases : loc[1].old[p] > 0 /\ p \notin DOMAIN VStats(1)

\* What relations E, F hold email by email, whatever ids the rows have: per
\* fingerprint the email's columns and how often it holds each phrase.
Abs(E, F) ==
  [h \in {E[k].hash : k \in DOMAIN E} |->
      LET k == CHOOSE x \in DOMAIN E : E[x].hash = h
      IN [hdr |-> E[k].hdr, content |-> E[k].content, total |-> E[k].total,
          flagged_at |-> E[k].flagged_at, counts |-> CountsByPhrase(F, k)]]

\* The email, by fingerprint, that a call made in the marked state is about;
\* <<>> when it names a row the marked state does not have.
Target(theCall) ==
  CASE theCall.op = "store" -> _generate_email_hash(theCall.content)
    [] theCall.op = "delete_email" ->
         IF theCall.id \in DOMAIN mark.e THEN mark.e[theCall.id].hash ELSE << >>
    [] theCall.op = "delete_finding" ->
         IF theCall.fid \in DOMAIN mark.f
           THEN mark.e[mark.f[theCall.fid].email].hash ELSE << >>

\* What the call, run alone, leaves of the emails A.
Alone(A, theCall) ==
  LET h == Target(theCall)
  IN CASE theCall.op = "store" ->
            LET counts == [p \in Phrases |-> BatchCount(theCall.batch, p)]
                n == Len(theCall.batch)
            IN (h :> IF h \in DOMAIN A
                       THEN [A[h] EXCEPT !.total = n, !.flagged_at = theCall.time,
                                         !.counts = counts]
                       ELSE [hdr |-> theCall.hdr, content |-> theCall.content,
                             total |-> n, flagged_at |-> theCall.time,
                             counts |-> counts]) @@ A
       [] theCall.op = "delete_email" -> Restrict(A, DOMAIN A \ {h})
       [] theCall.op = "delete_finding" ->
            [A EXCEPT ![h].counts[mark.f[theCall.fid].phrase] = @ - 1]

\* Two calls made from the marked state, about different emails, have both
\* committed, and nothing else runs.
BothCommitted ==
  /\ mark.on
  /\ AllIdle
  /\ Len(mark.calls) = 2
  /\ Target(mark.calls[1].call) # << >>
  /\ Target(mark.calls[2].call) # << >>
  /\ Target(mark.calls[1].call) # Target(mark.calls[2].call)

MissingId(c) ==
  CASE call[c].op \in {"delete_email", "update_email"} -> call[c].id \notin DOMAIN emails
    [] call[c].op = "delete_finding" -> call[c].fid \notin DOMAIN findings
    [] OTHER -> FALSE

\* C19: a delete_email, delete_finding or update_email by an id that does not
\* exist writes nothing and locks nothing at any of its statements, and when
\* it returns it returns false with the three relations as they were.
C19_MissingIdIsFalse ==
  [][\A c \in Clients :
       (pc[c] # "idle" /\ MissingId(c)) =>
          /\ ov'[c] = InitOv
          /\ (pc'[c] = "idle" /\ ret'[c].kind = "ok") =>
                (ret'[c].val = FALSE /\ db' = db)]_vars

\* An update with an allow-listed field, by an id no row has while other rows
\* exist, has run its statement and is about to commit.
C19_Witness ==
  /\ pc[1] = "commit"
  /\ call[1].op = "update_email"
  /\ call[1].id \notin DOMAIN emails
  /\ "email_subject" \in DOMAIN call[1].updates
  /\ emails # EmptyFn

\* C20: a committing update_email leaves findings and ledger alone, changes
\* no row but the one of its id, and in that row no column but those an
\* allow-listed field of the map names: never the fingerprint nor flagged_at,
\* nor which ids exist; given a map with no allow-listed field it returns
\* false and changes nothing.
C20_UpdateAllowList ==
  [][\A c \in Clients :
       Commits(c, "update_email") =>
          LET updates == call[c].updates
              allowed == DOMAIN updates \cap valid_fields
          IN /\ findings' = findings
             /\ stats' = stats
             /\ DOMAIN emails' = DOMAIN emails
             /\ \A k \in DOMAIN emails :
                  /\ emails'[k].hash = emails[k].hash
                  /\ emails'[k].flagged_at = emails[k].flagged_at
                  /\ k # call[c].id => emails'[k] = emails[k]
                  /\ \A col \in DOMAIN emails[k] :
                       emails'[k][col] # emails[k][col] =>
                          \E f \in allowed : Column(f) = col
             /\ allowed = {} => (ret'[c].val = FALSE /\ emails' = emails)]_vars

\* An update of a stored email with a map that names the subject together
\* with id, fingerprint and flagged_at is about to commit a changed subject.
C20_Witness ==
  /\ pc[1] = "commit"
  /\ call[1].op = "update_email"
  /\ call[1].id \in DOMAIN emails
  /\ {"email_subject", "email_hash", "flagged_at", "id"} \subseteq DOMAIN call[1].updates
  /\ VEmails(1)[call[1].id].hdr # emails[call[1].id].hdr

\* C21: in every committed state the owner of each Finding is a stored email,
\* and the state a delete_email(id) that found the email is about to commit
\* holds no email of that id (nor, a cleanup's, any email it counted as old).
C21_OwnersExist ==
  /\ \A k \in DOMAIN findings : findings[k].email \in DOMAIN emails
  /\ \A c \in Clients :
       pc[c] = "commit" =>
         /\ \A k \in DOMAIN VFindings(c) : VFindings(c)[k].email \in DOMAIN VEmails(c)
         /\ call[c].op = "delete_email" => call[c].id \notin DOMAIN VEmails(c)

\* delete_email is about to commit the removal of an email that owned
\* findings, another email and its findings staying.
C21_Witness ==
  /\ pc[1] = "commit"
  /\ call[1].op = "delete_email"
  /\ call[1].id \in DOMAIN emails
  /\ FindingsOf(findings, call[1].id) # {}
  /\ DOMAIN VFindings(1) # {}

\* C22: the per-phrase deltas a cleanup subtracts from the ledger are counted
\* over exactly the findings and emails that cleanup deletes: when it is about
\* to commit, every finding it has deleted belongs to an email it has deleted,
\* and its deltas are the counts of the findings it has deleted, also when a
\* store of one of the aged emails committed while the cleanup was running.
C22_CleanupDeltasMatchPurge ==
  \A c \in Clients :
    (pc[c] = "commit" /\ call[c].op = "cleanup") =>
      LET gone == ov[c].e.del
          rows(p) == {k \in ov[c].f.del : findings[k].phrase = p}
      IN /\ \A k \in ov[c].f.del : findings[k].email \in gone
         /\ \A p \in Phrases :
              /\ loc[c].old[p] = Cardinality(rows(p))
              /\ loc[c].ea[p] = Cardinality({findings[k].email : k \in rows(p)})

\* The operation of caller c ends in this step; c starts one in this step.
Ends(c) == pc[c] # "idle" /\ pc'[c] = "idle"
Starts(c) == pc[c] = "idle" /\ pc'[c] # "idle"

\* C23: an operation whose connection was lost while it ran ends as a raised
\* failure with nothing committed, an operation that returns a result has
\* committed its writes on a working connection, and the operation begun after
\* a failure that closed the connection runs on a connection opened anew.
C23_LostConnectionRaises ==
  [][\A c \in Clients :
       /\ (Ends(c) /\ conn[c] # "open") =>
            (ret'[c].kind = "raised" /\ db' = db)
       /\ (Ends(c) /\ ret'[c].kind = "ok") =>
            (conn[c] = "open" /\ db' = <<VEmails(c), VFindings(c), VStats(c)>>)
       /\ Starts(c) => conn'[c] = "open"]_vars

\* A store that began on a connection closed by an earlier failure has issued
\* all its statements when its connection breaks before the commit.
C23_Witness ==
  /\ pc[1] = "commit"
  /\ call[1].op = "store"
  /\ conn[1] = "lost"
  /\ ret[1].kind = "raised"
  /\ loc[1].result # 0

\* C24: the committed relations change only in the step that ends an
\* operation with a result, and then by all the writes of that operation at
\* once; an operation that raises ends with the relations as committed before
\* and its transaction over (no write pending, no lock held).
C24_CommitOrRollback ==
  [][/\ db' # db =>
          \E c \in Clients :
            /\ pc[c] = "commit" /\ Ends(c) /\ ret'[c].kind = "ok"
            /\ db' = <<VEmails(c), VFindings(c), VStats(c)>>
     /\ \A c \in Clients :
          Ends(c) =>
            /\ ov'[c] = InitOv
            /\ \/ pc[c] = "commit" /\ ret'[c].kind = "ok"
                    /\ db' = <<VEmails(c), VFindings(c), VStats(c)>>
               \/ ret'[c].kind = "raised" /\ db' = db]_vars

\* A re-analysing store has replaced findings and written a ledger row, and
\* has more ledger rows to write: it may still commit or raise.
C24_Witness ==
  /\ pc[1] = "stat_upsert"
  /\ ~loc[1].isNew
  /\ ov[1].f.del # {}
  /\ DOMAIN ov[1].s.put # {}
  /\ conn[1] = "open"

\* C25: a store has read or written no Finding and written no ledger row
\* before its SELECT ... FOR UPDATE has run, and from that statement until its
\* commit or rollback it holds the lock of its email's row and no other
\* transaction does.
C25_RowLockHeld ==
  \A c \in Clients :
    call[c].op = "store" =>
      LET h == _generate_email_hash(call[c].content)
      IN /\ pc[c] \in {"upsert", "lock"} =>
              /\ ov[c].f = NoWrites
              /\ ov[c].s = NoWrites
              /\ loc[c].old = Zero /\ loc[c].new = Zero
         /\ pc[c] \in {"old_counts", "clear", "insert", "stat_upsert",
                       "stat_retire", "commit"} =>
              /\ h \in ov[c].locks.e
              /\ h \notin OthersLockE(c)

\* A re-analysing store holds the row and is about to delete the email's
\* findings while another store of the same content waits at its upsert.
C25_Witness ==
  /\ pc[1] = "clear"
  /\ FindingsOf(findings, loc[1].id) # {}
  /\ pc[2] = "upsert"
  /\ call[2].content = call[1].content

\* C26 (as claimed): the ledger upsert of a store for phrase p leaves, when p
\* had no row, a row with total_occurrences = new_count - old_count and
\* emails_affected = emails_affected_delta, and when p had a row, that row
\* with the two deltas added to its counters.
C26_SeedsWithDeltas ==
  [][\A c \in Clients :
       (pc[c] = "stat_upsert" /\ pc'[c] # "idle") =>
          LET p == loc'[c].cur
              S == VStats(c)
              row == Overlay(stats', ov'[c].s)[p]
              cd == CountDelta(loc[c].old[p], loc[c].new[p])
              ed == EmailsAffectedDelta(loc[c].isNew, loc[c].old[p], loc[c].new[p])
          IN IF p \in DOMAIN S
               THEN row.total = S[p].total + cd /\ row.ea = S[p].ea + ed
               ELSE row.total = cd /\ row.ea = ed]_vars

\* C27: when a store of a fingerprint already stored commits, the findings of
\* that email are the new batch, phrase by phrase, none of its earlier
\* findings is left, its total_findings is the size of the batch, and the
\* findings of the other emails are what they were.
C27_FindingsReplaced ==
  [][\A c \in Clients :
       Commits(c, "store") =>
         \A id \in EmailOf(call[c].content) :
           LET mine == {k \in DOMAIN findings' : findings'[k].email = id}
               were == {k \in DOMAIN findings : findings[k].email = id}
           IN /\ \A p \in Phrases :
                   CountsByPhrase(findings', id)[p] = BatchCount(call[c].batch, p)
              /\ mine \cap DOMAIN findings = {}
              /\ emails'[id].total = Len(call[c].batch)
              /\ Without(findings', mine) = Without(findings, were)]_vars

\* A store is about to commit a batch for an email that holds other findings,
\* another email holding findings too.
C27_Witness ==
  /\ pc[1] = "commit"
  /\ call[1].op = "store"
  /\ \E id \in EmailOf(call[1].content) :
       /\ CountsByPhrase(findings, id)["b"] = 1
       /\ call[1].batch = <<"a">>
       /\ \E k \in DOMAIN findings : findings[k].email # id

\* C28: when a store of a fingerprint already stored commits, the email's row
\* is the row as it was with total_findings and flagged_at replaced: id,
\* fingerprint, headers, content and risk level stay, whatever headers the
\* second descriptor carries.
C28_RestoreKeepsRow ==
  [][\A c \in Clients :
       Commits(c, "store") =>
         \A id \in EmailOf(call[c].content) :
           /\ ret'[c].val = id
           /\ emails' = [emails EXCEPT ![id] =
                           [@ EXCEPT !.total = Len(call[c].batch),
                                     !.flagged_at = call[c].time]]]_vars

\* A store with other headers than the stored email's, and another number of
\* findings, is about to commit.
C28_Witness ==
  /\ pc[1] = "commit"
  /\ call[1].op = "store"
  /\ \E id \in EmailOf(call[1].content) :
       /\ call[1].hdr # emails[id].hdr
       /\ Len(call[1].batch) # emails[id].total

\* C29: whatever a transaction has written, the last_seen of a ledger row
\* that was there before and is still there differs from the committed one
\* only in a store whose batch holds the phrase more often than the email
\* held it before (occurrence_delta > 0 or emails_affected_delta > 0):
\* re-analysis with another delta, delete_email, delete_finding and cleanup
\* leave it as it was.
C29_LastSeenOnlyOnGain ==
  \A c \in Clients :
    \A p \in DOMAIN stats \cap DOMAIN ov[c].s.put :
      ov[c].s.put[p].last_seen # stats[p].last_seen =>
        /\ call[c].op = "store"
        /\ BatchCount(call[c].batch, p) >
             Cardinality({k \in DOMAIN findings :
                            findings[k].email = loc[c].id /\ findings[k].phrase = p})

\* Later than the rows were last seen, a re-analysing store is about to commit
\* a smaller count for one phrase, whose row stays with its last_seen, and a
\* gain for another phrase that has a row.
C29_Witness ==
  /\ pc[1] = "commit"
  /\ call[1].op = "store"
  /\ call[1].time = 1
  /\ \E p \in DOMAIN stats \cap DOMAIN VStats(1) :
       /\ stats[p].last_seen = 0
       /\ VStats(1)[p].total < stats[p].total
       /\ VStats(1)[p].last_seen = 0
  /\ \E p \in DOMAIN stats \cap DOMAIN VStats(1) :
       /\ stats[p].last_seen = 0
       /\ VStats(1)[p].last_seen = 1

\* C30: the state a cleanup is about to commit holds every email that is not
\* older than the threshold as it was, every Finding of such an email as it
\* was and no Finding that was not there, and for every phrase the ledger
\* counters less what the purged emails held of it: the row of a phrase that
\* no purged email holds is the row as it was.
C30_CleanupFrame ==
  \A c \in Clients :
    (pc[c] = "commit" /\ call[c].op = "cleanup") =>
      LET kept == {k \in DOMAIN emails :
                     ~(emails[k].flagged_at < call[c].time - call[c].days)}
          E == VEmails(c)
          F == VFindings(c)
          S == VStats(c)
      IN /\ \A k \in kept : k \in DOMAIN E /\ E[k] = emails[k]
         /\ DOMAIN F \subseteq DOMAIN findings
         /\ \A k \in DOMAIN findings :
              findings[k].email \in kept => (k \in DOMAIN F /\ F[k] = findings[k])
         /\ \A p \in Phrases :
              LET lost == {k \in DOMAIN findings :
                             findings[k].phrase = p /\ findings[k].email \notin kept}
              IN IF lost = {}
                   THEN SameRow(S, stats, p)
                   ELSE /\ Tot(S, p) = Tot(stats, p) - Cardinality(lost)
                        /\ Aff(S, p) = Aff(stats, p)
                                         - Cardinality({findings[k].email : k \in lost})

\* A cleanup is about to commit that purges an email and retains one exactly
\* as old as the threshold, which holds a phrase the purged one does not.
C30_Witness ==
  /\ pc[1] = "commit"
  /\ call[1].op = "cleanup"
  /\ ov[1].e.del # {}
  /\ ov[1].f.del # {}
  /\ \E k \in DOMAIN VEmails(1) :
       /\ emails[k].flagged_at = call[1].time - call[1].days
       /\ \E f \in DOMAIN findings :
            /\ findings[f].email = k
            /\ \A g \in ov[1].f.del : findings[g].phrase # findings[f].phrase

\* C31 (as claimed): no committed ledger row has a counter below zero, and a
\* delete_email, delete_finding or cleanup that is about to commit has taken
\* from the ledger, per phrase, no more occurrences than the Findings it has
\* itself deleted, whatever other transactions committed while it ran.
C31_NoOverDecrement ==
  /\ \A p \in DOMAIN stats : stats[p].total >= 0 /\ stats[p].ea >= 0
  /\ \A c \in Clients :
       (pc[c] = "commit" /\ call[c].op \in {"delete_email", "delete_finding", "cleanup"}) =>
          \A p \in Phrases :
            loc[c].old[p] <= Cardinality({k \in ov[c].f.del : findings[k].phrase = p})

\* C32 (as claimed): in every committed state the total_findings of each
\* stored email is the number of Finding rows the email owns.
C32_TotalFindingsIsCount ==
  \A k \in DOMAIN emails :
    emails[k].total = Cardinality({f \in DOMAIN findings : findings[f].email = k})

\* C33 (as claimed): in every committed state every phrase that has a Finding
\* in a stored email has a ledger row, delete_phrase_statistic and the
\* operations after it included.
C33_LedgerComplete ==
  \A f \in DOMAIN findings :
    findings[f].email \in DOMAIN emails => findings[f].phrase \in DOMAIN stats

\* C34 (as claimed): the state an update_analysis_result that gives a Finding
\* another phrase is about to commit has, for the old and for the new phrase,
\* total_occurrences equal to the number of Findings of the phrase and
\* emails_affected equal to the number of emails that own one.
C34_UpdateKeepsLedger ==
  \A c \in Clients :
    (/\ pc[c] = "commit"
     /\ call[c].op = "update_finding"
     /\ loc[c].result = TRUE
     /\ VFindings(c)[call[c].fid].phrase # findings[call[c].fid].phrase) =>
       \A p \in {findings[call[c].fid].phrase, VFindings(c)[call[c].fid].phrase} :
         LET F == VFindings(c)
             rows == {k \in DOMAIN F : F[k].phrase = p}
         IN /\ Tot(VStats(c), p) = Cardinality(rows)
            /\ Aff(VStats(c), p) = Cardinality({F[k].email : k \in rows})

\* C35 (as claimed): in every committed state the fingerprint of each stored
\* email is the fingerprint of its stored content, and no two stored emails
\* have the same content.
C35_FingerprintOfContent ==
  /\ \A k \in DOMAIN emails : emails[k].hash = _generate_email_hash(emails[k].content)
  /\ \A i, j \in DOMAIN emails : emails[i].content = emails[j].content => i = j

\* C36: a store of a content that is stored with exactly the findings of the
\* batch (the state a first store of them left) is about to commit a state
\* with the same emails, the same per-phrase counts and total_findings of the
\* email, and the same ledger, last_seen of every row included.
C36_StoreIdempotent ==
  \A c \in Clients :
    (pc[c] = "commit" /\ call[c].op = "store") =>
      \A id \in EmailOf(call[c].content) :
        (/\ \A p \in Phrases :
               CountsByPhrase(findings, id)[p] = BatchCount(call[c].batch, p)
         /\ emails[id].total = Len(call[c].batch)) =>
           /\ DOMAIN VEmails(c) = DOMAIN emails
           /\ VEmails(c)[id].total = emails[id].total
           /\ CountsByPhrase(VFindings(c), id) = CountsByPhrase(findings, id)
           /\ VStats(c) = stats

\* Later than the first store, a second store of the same content with the
\* same two phrases is about to commit, another email sharing a phrase.
C36_Witness ==
  /\ pc[1] = "commit"
  /\ call[1].op = "store"
  /\ call[1].time = 1
  /\ call[1].batch = <<"a", "b">>
  /\ Cardinality(DOMAIN emails) = 2
  /\ \E id \in EmailOf(call[1].content) :
       /\ emails[id].flagged_at = 0
       /\ CountsByPhrase(findings, id) = [p \in Phrases |-> 1]
  /\ stats["a"].total = 2
  /\ stats["a"].last_seen = 0

\* C37: the state a store is about to commit has the email's flagged_at at
\* the time of that store, also for an email stored before; and the state a
\* cleanup is about to commit still has every email whose flagged_at is not
\* more than the threshold before the cleanup, with its findings, and a ledger
\* that counts at least the findings of those emails.
C37_RestoreResetsAge ==
  \A c \in Clients :
    pc[c] = "commit" =>
      /\ call[c].op = "store" =>
           VEmails(c)[loc[c].result].flagged_at = call[c].time
      /\ call[c].op = "cleanup" =>
           \A k \in DOMAIN emails :
             call[c].time - emails[k].flagged_at <= call[c].days =>
               /\ k \in DOMAIN VEmails(c)
               /\ \A f \in DOMAIN findings :
                    findings[f].email = k =>
                      /\ f \in DOMAIN VFindings(c)
                      /\ findings[f].phrase \in DOMAIN VStats(c)
                      /\ VStats(c)[findings[f].phrase].total >=
                           Cardinality({g \in DOMAIN findings :
                                          /\ findings[g].email = k
                                          /\ findings[g].phrase = findings[f].phrase})

\* A cleanup with threshold 0 is about to commit right after the only email,
\* first stored a tick earlier, was stored again: the email stays.
C37_Witness ==
  /\ pc[1] = "commit"
  /\ call[1].op = "cleanup"
  /\ call[1].days = 0
  /\ call[1].time = 1
  /\ DOMAIN emails = {1}
  /\ emails[1].flagged_at = 1
  /\ \E p \in DOMAIN stats : stats[p].last_seen = 0
  /\ 1 \in DOMAIN VEmails(1)
  /\ ret[1].op = "store"

====
